---- MODULE Spec2Model ----
(***************************************************************************)
(* Model of src/bisection_method.py: the cubic f and bisection_method.      *)
(*                                                                         *)
(* Numbers.  Python floats are binary floating point numbers of finite     *)
(* precision.  The model scales the format down to a binary fixed-point    *)
(* grid: a value x is held as the integer x * Unit, Unit = 2^FracBits.     *)
(* The midpoint (a + b) / 2 is rounded to the grid, ties to even, as the   *)
(* float division does when a + b needs one bit more than the format has.  *)
(* Function values are held exactly, as integers scaled by Unit^3 (the     *)
(* cubic of a grid value has at most 3 * FracBits fractional bits).  The   *)
(* relative error and the tolerance are exact fractions <<num, den>>.      *)
(* Exponent range (overflow, underflow) is not modelled.                   *)
(***************************************************************************)
EXTENDS Integers, Sequences, FiniteSets, TLC

\* Fractional bits of the scaled-down number format.
FracBits == 3
\* Largest magnitude of a bracket endpoint passed by a caller.
MaxAbs == 12
\* Largest max_iterations passed by a caller other than the script itself.
MaxIter == 4

Unit == 2^FracBits

\* max_iterations of the script's own call.
MainMaxIterations == 50

VARIABLES
    pc,             \* position in bisection_method
    arg_a, arg_b,   \* the arguments a and b as passed by the caller
    tolerance,      \* <<num, den>>
    max_iterations,
    a, b,           \* the parameters a and b, reassigned by the loop
    c,              \* <<>> while the local c is unbound, <<value>> afterwards
    c_old,
    i,              \* the loop variable of "for i in range(max_iterations)"
    iterations, a_list, b_list, c_list, f_a_list, f_b_list, f_c_list, err_list,
    root, df,       \* what the caller receives
    exit_via,       \* how the function left the loop
    exc             \* the exception that ended the call, if any

vars == <<pc, arg_a, arg_b, tolerance, max_iterations, a, b, c, c_old, i,
          iterations, a_list, b_list, c_list, f_a_list, f_b_list, f_c_list,
          err_list, root, df, exit_via, exc>>

Unset == <<"unset">>
None == <<"None">>
Float(x) == <<"float", x>>
DataFrame(rows) == <<"DataFrame", rows>>

----------------------------------------------------------------------------
\* Arithmetic helpers.

Abs(x) == IF x < 0 THEN -x ELSE x

Sgn(x) == IF x < 0 THEN -1 ELSE IF x = 0 THEN 0 ELSE 1

RECURSIVE GCD(_, _)
GCD(m, n) == IF n = 0 THEN m ELSE GCD(n, m % n)

\* The fraction n / d (n >= 0, d > 0) in lowest terms.
Frac(n, d) == LET g == GCD(n, d) IN <<n \div g, d \div g>>

\* The least integer >= n / d, for d > 0.
CeilDiv(n, d) == -((-n) \div d)

\* n / d < tol, for an integer n, d > 0 and a fraction tol with tol[2] > 0:
\* n / d < t  iff  n < t * d  iff  n < ceil(t * d).
Less(n, d, tol) == n < CeilDiv(tol[1] * d, tol[2])

\* The sign of the product x * y.
MulSign(x, y) == Sgn(x) * Sgn(y)

----------------------------------------------------------------------------
\* The code's expressions.

\* Variant of f with the sign of the linear term flipped.
fWrongSign(x) == x*x*x - 2*x*x*Unit + 5*x*Unit*Unit + 6*Unit*Unit*Unit
\* f(x) = x**3 - 2*x**2 - 5*x + 6; argument scaled by Unit, value by Unit^3.
f(x) == x*x*x - 2*x*x*Unit - 5*x*Unit*Unit + 6*Unit*Unit*Unit

\* Variant of BracketInvalid that lets a zero product through.
BracketInvalidStrict(fa, fb) == MulSign(fa, fb) > 0
\* func(a) * func(b) >= 0
BracketInvalid(fa, fb) == MulSign(fa, fb) >= 0

\* Variant of InRange that runs one iteration too many.
InRangeInclusive(k, n) == 0 <= k /\ k <= n
\* i in range(max_iterations)
InRange(k, n) == 0 <= k /\ k < n

\* Variant of Midpoint without the parentheses: a + b / 2.
MidpointPrecedence(x, y) == x + (y \div 2)
\* c = (a + b) / 2, rounded to the grid, ties to even.
Midpoint(x, y) ==
    LET s == x + y
        lo == s \div 2
    IN  IF s % 2 = 0 THEN lo
        ELSE IF lo % 2 = 0 THEN lo ELSE lo + 1

\* (c - c_old) / c raises ZeroDivisionError: evaluated only when i > 0.
DivisionByZero(cn, k) == k > 0 /\ cn = 0

\* error = abs((c - c_old) / c) * 100 if i > 0 else 100
RelError(cn, co, k) ==
    IF k > 0 THEN Frac(100 * Abs(cn - co), Abs(cn)) ELSE <<100, 1>>

\* Variant of Converged that asks for both tests.
ConvergedBoth(fc, err, tol) ==
    Less(Abs(fc), Unit * Unit * Unit, tol) /\ Less(err[1], err[2], tol)
\* abs(f_c) < tolerance or error < tolerance
Converged(fc, err, tol) ==
    Less(Abs(fc), Unit * Unit * Unit, tol) \/ Less(err[1], err[2], tol)

\* Variant of MoveHigh with the comparison turned round.
MoveHighSwapped(fa, fc) == MulSign(fa, fc) > 0
\* f_a * f_c < 0: the root lies in [a, c], so b = c; else a = c.
MoveHigh(fa, fc) == MulSign(fa, fc) < 0

\* Variant of IterationIndex that records the loop variable itself.
IterationIndexZeroBased(k) == k
\* iterations.append(i + 1)
IterationIndex(k) == k + 1

----------------------------------------------------------------------------
\* One pass through the loop body, on the function's locals.

Frame ==
    [a |-> a, b |-> b, c |-> c, c_old |-> c_old, i |-> i,
     iterations |-> iterations, a_list |-> a_list, b_list |-> b_list,
     c_list |-> c_list, f_a_list |-> f_a_list, f_b_list |-> f_b_list,
     f_c_list |-> f_c_list, err_list |-> err_list, outcome |-> "continue"]

InitFrame(x, y) ==
    [a |-> x, b |-> y, c |-> <<>>, c_old |-> x, i |-> 0,
     iterations |-> <<>>, a_list |-> <<>>, b_list |-> <<>>,
     c_list |-> <<>>, f_a_list |-> <<>>, f_b_list |-> <<>>,
     f_c_list |-> <<>>, err_list |-> <<>>, outcome |-> "continue"]

LoopBody(fr, tol) ==
    LET cn == Midpoint(fr.a, fr.b)
        fa == f(fr.a)
        fb == f(fr.b)
        fc == f(cn)
    IN  IF DivisionByZero(cn, fr.i)
        THEN [fr EXCEPT !.c = <<cn>>, !.outcome = "ZeroDivisionError"]
        ELSE
        LET error == RelError(cn, fr.c_old, fr.i)
            rec == [fr EXCEPT
                      !.c = <<cn>>,
                      !.iterations = Append(@, IterationIndex(fr.i)),
                      !.a_list = Append(@, fr.a),
                      !.b_list = Append(@, fr.b),
                      !.c_list = Append(@, cn),
                      !.f_a_list = Append(@, fa),
                      !.f_b_list = Append(@, fb),
                      !.f_c_list = Append(@, fc),
                      !.err_list = Append(@, error)]
        IN  IF Converged(fc, error, tol)
            THEN [rec EXCEPT !.outcome = "break"]
            ELSE [rec EXCEPT
                    !.a = IF MoveHigh(fa, fc) THEN fr.a ELSE cn,
                    !.b = IF MoveHigh(fa, fc) THEN cn ELSE fr.b,
                    !.c_old = cn,
                    !.i = fr.i + 1,
                    !.outcome = "continue"]

\* The rows of pd.DataFrame({...}) built from the parallel lists.
Rows(fr) ==
    [k \in 1..Len(fr.iterations) |->
        [Iteration |-> fr.iterations[k],
         a |-> fr.a_list[k],
         b |-> fr.b_list[k],
         c |-> fr.c_list[k],
         f_a |-> fr.f_a_list[k],
         f_b |-> fr.f_b_list[k],
         f_c |-> fr.f_c_list[k],
         Error |-> fr.err_list[k]]]

----------------------------------------------------------------------------
\* Inputs.

\* Bracket endpoints: the multiples of 1/2 of magnitude at most MaxAbs.
Endpoints == {k * (Unit \div 2) : k \in (-2 * MaxAbs)..(2 * MaxAbs)}

\* Tolerances: -1, 0, 1e-6 (the default and the script's), 40, 200.
Tolerances == {<<-1, 1>>, <<0, 1>>, <<1, 1000000>>, <<40, 1>>, <<200, 1>>}

IterationBudgets == (-1)..MaxIter

Call(x, y, tol, n) ==
    /\ pc = "call"
    /\ arg_a = x /\ arg_b = y /\ tolerance = tol /\ max_iterations = n
    /\ a = x /\ b = y
    /\ c = <<>> /\ c_old = x /\ i = 0
    /\ iterations = <<>> /\ a_list = <<>> /\ b_list = <<>> /\ c_list = <<>>
    /\ f_a_list = <<>> /\ f_b_list = <<>> /\ f_c_list = <<>> /\ err_list = <<>>
    /\ root = Unset /\ df = Unset
    /\ exit_via = "Running" /\ exc = "none"

\* root, df = bisection_method(f, 0, 2, tolerance=1e-6, max_iterations=50)
MainCall == Call(0, 2 * Unit, <<1, 1000000>>, MainMaxIterations)

Init ==
    \/ MainCall
    \/ \E x \in Endpoints, y \in Endpoints, tol \in Tolerances,
          n \in IterationBudgets : Call(x, y, tol, n)

----------------------------------------------------------------------------
\* Actions.

locals == <<a, b, c, c_old, i, iterations, a_list, b_list, c_list,
            f_a_list, f_b_list, f_c_list, err_list>>
args == <<arg_a, arg_b, tolerance, max_iterations>>

\* if func(a) * func(b) >= 0: return None, None
RejectBracket ==
    /\ pc = "call"
    /\ BracketInvalid(f(a), f(b))
    /\ pc' = "done"
    /\ root' = None /\ df' = None
    /\ exit_via' = "Rejected"
    /\ UNCHANGED <<args, locals, exc>>

\* the lists are created and c_old = a
EnterLoop ==
    /\ pc = "call"
    /\ ~BracketInvalid(f(a), f(b))
    /\ pc' = "loop"
    /\ c_old' = a
    /\ iterations' = <<>> /\ a_list' = <<>> /\ b_list' = <<>> /\ c_list' = <<>>
    /\ f_a_list' = <<>> /\ f_b_list' = <<>> /\ f_c_list' = <<>>
    /\ err_list' = <<>>
    /\ UNCHANGED <<args, a, b, c, i, root, df, exit_via, exc>>

\* one pass through the body of the for loop
Iterate ==
    /\ pc = "loop"
    /\ InRange(i, max_iterations)
    /\ LET n == LoopBody(Frame, tolerance) IN
        /\ a' = n.a /\ b' = n.b /\ c' = n.c /\ c_old' = n.c_old /\ i' = n.i
        /\ iterations' = n.iterations
        /\ a_list' = n.a_list /\ b_list' = n.b_list /\ c_list' = n.c_list
        /\ f_a_list' = n.f_a_list /\ f_b_list' = n.f_b_list
        /\ f_c_list' = n.f_c_list /\ err_list' = n.err_list
        /\ pc' = CASE n.outcome = "continue" -> "loop"
                   [] n.outcome = "break" -> "build"
                   [] OTHER -> "raised"
        /\ exit_via' = IF n.outcome = "break" THEN "Converged" ELSE exit_via
        /\ exc' = IF n.outcome \in {"continue", "break"} THEN exc ELSE n.outcome
    /\ UNCHANGED <<args, root, df>>

\* range(max_iterations) is exhausted
LoopExhausted ==
    /\ pc = "loop"
    /\ ~InRange(i, max_iterations)
    /\ pc' = "build"
    /\ exit_via' = "Exhausted"
    /\ UNCHANGED <<args, locals, root, df, exc>>

\* df = pd.DataFrame({...}); return c, df
Return ==
    /\ pc = "build"
    /\ IF c = <<>>
       THEN /\ pc' = "raised"
            /\ exc' = "UnboundLocalError"
            /\ UNCHANGED <<root, df>>
       ELSE /\ pc' = "done"
            /\ root' = Float(c[1])
            /\ df' = DataFrame(Rows(Frame))
            /\ exc' = exc
    /\ UNCHANGED <<args, locals, exit_via>>

Next == RejectBracket \/ EnterLoop \/ Iterate \/ LoopExhausted \/ Return

Spec == Init /\ [][Next]_vars

----------------------------------------------------------------------------
\* The whole call as a function of its arguments: the steps above, run to
\* the end.

RECURSIVE RunLoop(_, _, _)
RunLoop(fr, tol, n) ==
    IF fr.outcome # "continue" \/ ~InRange(fr.i, n)
    THEN fr
    ELSE RunLoop(LoopBody(fr, tol), tol, n)

Solve(x, y, tol, n) ==
    IF BracketInvalid(f(x), f(y))
    THEN [result |-> <<None, None>>, exit |-> "Rejected"]
    ELSE LET fr == RunLoop(InitFrame(x, y), tol, n) IN
         IF fr.outcome = "ZeroDivisionError" \/ fr.c = <<>>
         THEN [result |-> <<Unset, Unset>>, exit |-> "Raised"]
         ELSE [result |-> <<Float(fr.c[1]), DataFrame(Rows(fr))>>,
               exit |-> IF fr.outcome = "break" THEN "Converged"
                        ELSE "Exhausted"]

\* The stepwise call and the function agree on what the caller receives.
SolveAgrees ==
    pc = "done" =>
        LET r == Solve(arg_a, arg_b, tolerance, max_iterations) IN
        r.result = <<root, df>> /\ r.exit = exit_via

----------------------------------------------------------------------------
\* Vocabulary of the properties.

\* Number of trace records so far.
N == Len(iterations)

Cube == Unit * Unit * Unit

\* f(low) and f(high) of the call have strictly opposite signs.
ValidBracket ==
    \/ f(arg_a) < 0 /\ f(arg_b) > 0
    \/ f(arg_a) > 0 /\ f(arg_b) < 0

PositiveTolerance == tolerance[1] > 0

\* The call keeps the contract: a strict sign change, a positive tolerance
\* and a positive budget.
ValidCall == ValidBracket /\ PositiveTolerance /\ max_iterations > 0

\* The bracket was passed as (low, high) with low <= high.
Ordered == arg_a <= arg_b

\* Record k meets the tolerance: |f(c)| < tolerance or error < tolerance.
Meets(k) ==
    \/ Less(Abs(f_c_list[k]), Cube, tolerance)
    \/ Less(err_list[k][1], err_list[k][2], tolerance)

Returned == pc = "done" /\ exit_via # "Rejected"

IsMain ==
    /\ arg_a = 0 /\ arg_b = 2 * Unit
    /\ tolerance = <<1, 1000000>> /\ max_iterations = MainMaxIterations

----------------------------------------------------------------------------
\* C1: when f(low) * f(high) >= 0 (a zero product and the zero-width
\* bracket included) the call runs no iteration and returns no root and no
\* trace; so it does for the cubic on [0, 0] and [-3, -2].
C1_InvalidBracketRejected ==
    /\ (pc # "call" /\ ~ValidBracket) =>
          /\ pc = "done" /\ exit_via = "Rejected"
          /\ root = None /\ df = None
          /\ i = 0 /\ c = <<>> /\ N = 0
          /\ a_list = <<>> /\ b_list = <<>> /\ c_list = <<>>
          /\ f_a_list = <<>> /\ f_b_list = <<>> /\ f_c_list = <<>>
          /\ err_list = <<>>
    /\ (pc # "call" /\ <<arg_a, arg_b>> \in {<<0, 0>>, <<-3 * Unit, -2 * Unit>>})
          => exit_via = "Rejected" /\ root = None /\ df = None

\* The bracket [-3, -2], whose product is exactly 0, has been rejected.
C1_Witness ==
    /\ pc = "done" /\ exit_via = "Rejected"
    /\ arg_a = -3 * Unit /\ arg_b = -2 * Unit
    /\ f(arg_b) = 0 /\ f(arg_a) < 0
    /\ tolerance = <<1, 1000000>> /\ max_iterations = MaxIter

\* C2 as stated: on a bracket with a strict sign change, a positive
\* tolerance and a positive budget, the returned midpoint meets the tolerance.
C2_ReturnedMidpointMeetsTolerance ==
    (ValidCall /\ Ordered /\ Returned) => Meets(N)

\* C2 as amended: on such a call at most max_iterations iterations run, and
\* a returned midpoint meets the tolerance unless all max_iterations
\* iterations were run.
C2_WithinBudget ==
    ValidCall =>
        /\ N <= max_iterations /\ i <= max_iterations
        /\ pc = "loop" => N = i
        /\ Returned => (Meets(N) \/ (N = max_iterations /\ exit_via = "Exhausted"))
        /\ (Returned /\ exit_via = "Converged") => Meets(N)

\* A call returned after using its whole budget without meeting the
\* tolerance.
C2_Witness ==
    /\ ValidCall /\ Ordered /\ Returned
    /\ exit_via = "Exhausted" /\ N = max_iterations /\ N >= 2
    /\ ~Meets(N)

\* C3 as stated: each bracket is nested in the one before, has exactly half
\* its width, and exactly one endpoint changed, to the earlier midpoint.
C3_NestedHalving ==
    \A k \in 1..(N - 1) :
        /\ a_list[k + 1] >= a_list[k]
        /\ b_list[k + 1] <= b_list[k]
        /\ 2 * (b_list[k + 1] - a_list[k + 1]) = b_list[k] - a_list[k]
        /\ \/ a_list[k + 1] = c_list[k] /\ a_list[k + 1] # a_list[k]
                /\ b_list[k + 1] = b_list[k]
           \/ b_list[k + 1] = c_list[k] /\ b_list[k + 1] # b_list[k]
                /\ a_list[k + 1] = a_list[k]

\* C3 as stated, for the calls that keep the contract with low <= high.
C3_NestedHalvingOrdered == (ValidCall /\ Ordered) => C3_NestedHalving

\* C3 as amended: one endpoint becomes the earlier midpoint and the other
\* stays; with low <= high the brackets are nested (mirrored with
\* low > high); the width is exactly halved, and exactly one endpoint
\* differs, whenever the midpoint was computed without rounding.
C3_NestedBisection ==
    \A k \in 1..(N - 1) :
        /\ \/ a_list[k + 1] = c_list[k] /\ b_list[k + 1] = b_list[k]
           \/ b_list[k + 1] = c_list[k] /\ a_list[k + 1] = a_list[k]
        /\ arg_a <= arg_b =>
              /\ a_list[k] <= a_list[k + 1]
              /\ a_list[k + 1] <= b_list[k + 1]
              /\ b_list[k + 1] <= b_list[k]
        /\ arg_a >= arg_b =>
              /\ a_list[k] >= a_list[k + 1]
              /\ a_list[k + 1] >= b_list[k + 1]
              /\ b_list[k + 1] >= b_list[k]
        /\ 2 * c_list[k] = a_list[k] + b_list[k] =>
              /\ 2 * (b_list[k + 1] - a_list[k + 1]) = b_list[k] - a_list[k]
              /\ (a_list[k + 1] # a_list[k]) # (b_list[k + 1] # b_list[k])

\* An ordered bracket was bisected after a midpoint that had to be rounded.
C3_Witness ==
    /\ ValidCall /\ arg_a < arg_b /\ N >= 3
    /\ \E k \in 1..(N - 1) :
          /\ 2 * c_list[k] # a_list[k] + b_list[k]
          /\ 2 * (b_list[k + 1] - a_list[k + 1]) # b_list[k] - a_list[k]
    /\ \E k \in 1..(N - 1) : a_list[k + 1] # a_list[k]
    /\ \E k \in 1..(N - 1) : b_list[k + 1] # b_list[k]

\* C4: the trace has one record per iteration executed, the columns have
\* one length, record k carries Iteration = k, and a returned trace has
\* between 1 and max_iterations records.
C4_TraceShape ==
    /\ Len(a_list) = N /\ Len(b_list) = N /\ Len(c_list) = N
    /\ Len(f_a_list) = N /\ Len(f_b_list) = N /\ Len(f_c_list) = N
    /\ Len(err_list) = N
    /\ \A k \in 1..N : iterations[k] = k
    /\ pc = "loop" => N = i
    /\ Returned =>
          /\ 1 <= N /\ N <= max_iterations
          /\ N = IF exit_via = "Converged" THEN i + 1 ELSE i
          /\ df[1] = "DataFrame" /\ Len(df[2]) = N
          /\ \A k \in 1..N : df[2][k].Iteration = k

\* A call returned a trace of several records, fewer than its budget.
C4_Witness ==
    /\ Returned /\ N >= 3 /\ N < max_iterations
    /\ exit_via = "Converged"

\* C5: a midpoint of exactly 0 after the first iteration raises no
\* division-by-zero fault.
C5_NoDivisionFault ==
    (ValidCall /\ Ordered) => exc # "ZeroDivisionError"

\* C6: with tolerance <= 0 or max_iterations <= 0 no trace record is
\* produced, no root estimate is returned, and no unrelated fault is raised.
C6_InvalidConfigurationReported ==
    (Ordered /\ (tolerance[1] <= 0 \/ max_iterations <= 0)) =>
        /\ N = 0
        /\ root[1] # "float"
        /\ exc # "UnboundLocalError"

\* C7: an exhausted call returns the midpoint of its last record, and what
\* it returns differs from what any converged call with the same bracket
\* and budget returns.
C7_ExhaustedDistinguishable ==
    (pc = "done" /\ exit_via = "Exhausted" /\ PositiveTolerance /\ Ordered) =>
        /\ N = max_iterations /\ root = Float(c_list[N])
        /\ \A tol \in {t \in Tolerances : t[1] > 0} :
              LET r == Solve(arg_a, arg_b, tol, max_iterations) IN
              r.exit = "Converged" => r.result # <<root, df>>

\* C8: the script's call (the cubic, [0, 2], 1e-6, 50) leaves the loop
\* through the tolerance test and returns the root 1 with the single record
\* a = 0, b = 2, c = 1, f(c) = 0, error = 100.
C8_MainScenario ==
    IsMain =>
        /\ pc # "raised"
        /\ pc = "done" =>
              /\ exit_via = "Converged"
              /\ root = Float(Unit)
              /\ df = DataFrame(<<[Iteration |-> 1, a |-> 0, b |-> 2 * Unit,
                                   c |-> Unit, f_a |-> 6 * Cube,
                                   f_b |-> -4 * Cube, f_c |-> 0,
                                   Error |-> <<100, 1>>]>>)

\* The script's call has returned.
C8_Witness == IsMain /\ pc = "done" /\ N = 1 /\ i = 0

\* C9: only the last record can meet the tolerance, nothing follows a
\* record that meets it, the returned root is the last record's midpoint,
\* and the error is 100 in record 1 and |(c[k] - c[k-1]) / c[k]| * 100 after.
C9_StopsAtFirst ==
    /\ \A k \in 1..(N - 1) : ~Meets(k)
    /\ (N >= 1 /\ Meets(N)) =>
          /\ pc \in {"build", "done"} /\ exit_via = "Converged"
          /\ i = N - 1
          /\ a = a_list[N] /\ b = b_list[N]
    /\ exit_via = "Converged" => (N >= 1 /\ Meets(N))
    /\ Returned => root = Float(c_list[N]) /\ df[2][N].c = c_list[N]
    /\ \A k \in 1..N :
          err_list[k] =
              IF k = 1 THEN <<100, 1>>
              ELSE Frac(100 * Abs(c_list[k] - c_list[k - 1]), Abs(c_list[k]))

\* A call stopped at its third or later record, the first to meet the
\* tolerance, and returned that record's midpoint.
C9_Witness ==
    /\ Returned /\ exit_via = "Converged" /\ N >= 3
    /\ Meets(N) /\ err_list[N] # <<100, 1>>
    /\ root = Float(c_list[N])

\* C10: from a bracket with f(low) * f(high) < 0 and a positive tolerance,
\* every record, and the current bracket, has f(a) * f(b) < 0.
C10_SignChange ==
    (ValidBracket /\ PositiveTolerance) =>
        /\ \A k \in 1..N :
              /\ f_a_list[k] = f(a_list[k]) /\ f_b_list[k] = f(b_list[k])
              /\ \/ f_a_list[k] < 0 /\ f_b_list[k] > 0
                 \/ f_a_list[k] > 0 /\ f_b_list[k] < 0
        /\ \/ f(a) < 0 /\ f(b) > 0
           \/ f(a) > 0 /\ f(b) < 0

\* Both endpoints have moved and the call went on.
C10_Witness ==
    /\ ValidBracket /\ PositiveTolerance /\ N >= 3
    /\ a_list[N] # arg_a /\ b_list[N] # arg_b

====
